---- MODULE Spec2Model ----
(***************************************************************************)
(* Conway's Game of Life (src/src/main.rs): the generation engine          *)
(* (neighbours, neighbour_counts, step), the screen-to-grid transform      *)
(* (mouse_to_grid) and the simulation loop of run().                       *)
(*                                                                         *)
(* Coordinates are i32 in the source.  Every coordinate of this model is   *)
(* far from the i32 limits, so the arithmetic is modelled on the integers. *)
(***************************************************************************)
EXTENDS Integers, Sequences, FiniteSets, TLC

\* ------------------------------------------------------------- constants

CELL_SIZE == 10

FPS == 144

STEPS_RATE == 12

\* const STEP_FRAME: u64 = FPS / STEPS_RATE (unsigned division)
STEP_FRAME == FPS \div STEPS_RATE

\* the camera movement of one held direction in one frame
PAN_SPEED == 15

\* struct Coord { x: i32, y: i32 }
Coord(x, y) == [x |-> x, y |-> y]

\* mutant: the entry (1, 0) typed twice, (1, 1) missing
DIFFS_Duplicate ==
  << <<-1, -1>>, <<-1, 0>>, <<-1, 1>>,
     <<0, -1>>,             <<0, 1>>,
     <<1, -1>>,  <<1, 0>>,  <<1, 0>> >>

\* const DIFFS: &[(i32, i32)], in the order of the source
DIFFS ==
  << <<-1, -1>>, <<-1, 0>>, <<-1, 1>>,
     <<0, -1>>,             <<0, 1>>,
     <<1, -1>>,  <<1, 0>>,  <<1, 1>> >>

\* --------------------------------------------------------------- bounds

\* the generation engine is applied to every subset of (0..GridMax)^2
GridMax == 2

\* the number of successive generations computed from one start set
MaxGen == 2

\* the live cells of the loop: a frame that would leave more is not taken
MaxLive == 4

\* the camera of the loop stays within MaxPan pans of the origin
MaxPan == 1

\* the generation steps of one session of the loop
MaxSteps == 2

\* the pointer of the coordinate functions is on a pixel of 0..MaxPixel
MaxPixel == 2

\* the camera of the coordinate functions is within MaxCam pixels of the origin
MaxCam == 21

Grid == {Coord(x, y) : x \in 0..GridMax, y \in 0..GridMax}

\* ------------------------------------------------------ generation engine

\* mutant: the y of a neighbour computed from dx
neighbours_SameDelta(cell) ==
  [i \in 1..Len(DIFFS) |-> Coord(cell.x + DIFFS[i][1], cell.y + DIFFS[i][1])]

\* fn neighbours: the buffer of 8 coordinates, filled in the order of DIFFS
neighbours(cell) ==
  [i \in 1..Len(DIFFS) |-> Coord(cell.x + DIFFS[i][1], cell.y + DIFFS[i][2])]

\* HashMap::new()
EmptyMap == [n \in {} |-> 0]

\* mutant: a vacant entry is inserted as 1 and incremented
RECURSIVE CountNeighbours_InsertOne(_, _, _)
CountNeighbours_InsertOne(counts, nei, i) ==
  IF i > Len(nei)
    THEN counts
    ELSE IF nei[i] \in DOMAIN counts
      THEN CountNeighbours_InsertOne([counts EXCEPT ![nei[i]] = @ + 1], nei, i + 1)
      ELSE CountNeighbours_InsertOne(counts @@ (nei[i] :> 1 + 1), nei, i + 1)

\* for n in nei { *counts.entry(n).or_insert(0) += 1 }: the entries i..8 of
\* the buffer, in order; an occupied entry is incremented, a vacant one is
\* inserted as 0 and incremented
RECURSIVE CountNeighbours(_, _, _)
CountNeighbours(counts, nei, i) ==
  IF i > Len(nei)
    THEN counts
    ELSE IF nei[i] \in DOMAIN counts
      THEN CountNeighbours([counts EXCEPT ![nei[i]] = @ + 1], nei, i + 1)
      ELSE CountNeighbours(counts @@ (nei[i] :> 0 + 1), nei, i + 1)

\* for c in cells.iter() { ... }: the cells not yet visited, which are
\* iterated in some order (the order of a HashSet is unspecified)
RECURSIVE CountCells(_, _)
CountCells(counts, rest) ==
  IF rest = {}
    THEN counts
    ELSE LET c == CHOOSE e \in rest : TRUE
         IN  CountCells(CountNeighbours(counts, neighbours(c), 1), rest \ {c})

\* fn neighbour_counts: HashMap<Coord, usize>, a function on its keys
neighbour_counts(cells_) == CountCells(EmptyMap, cells_)

\* mutant: a dead cell with 2 live neighbours is born
Survives_NoMembership(cells_, cell, count) ==
  count = 3 \/ count = 2

\* the rule of step for one (cell, count) pair of the map
Survives(cells_, cell, count) ==
  count = 3 \/ (cell \in cells_ /\ count = 2)

\* mutant: next_gen starts as a copy of cells
step_FromCopy(cells_) ==
  LET counts == neighbour_counts(cells_)
  IN  cells_ \cup {cell \in DOMAIN counts : Survives(cells_, cell, counts[cell])}

\* fn step: the next generation
step(cells_) ==
  LET counts == neighbour_counts(cells_)
  IN  {cell \in DOMAIN counts : Survives(cells_, cell, counts[cell])}

\* ------------------------------------------------------ camera and input

\* mutant: the quotient rounds toward minus infinity
TruncDiv_Floor(a, b) ==
  a \div b

\* i32 division of the source: the quotient truncates toward zero
TruncDiv(a, b) ==
  IF a >= 0 THEN a \div b ELSE -((-a) \div b)

\* mutant: the coordinates of the cell exchanged
mouse_to_grid_Transposed(x, y, cx, cy) ==
  Coord(TruncDiv(y + cy, CELL_SIZE), TruncDiv(x + cx, CELL_SIZE))

\* mutant: the camera offset subtracted
mouse_to_grid_CameraSubtracted(x, y, cx, cy) ==
  Coord(TruncDiv(x - cx, CELL_SIZE), TruncDiv(y - cy, CELL_SIZE))

\* fn mouse_to_grid
mouse_to_grid(x, y, cx, cy) ==
  Coord(TruncDiv(x + cx, CELL_SIZE), TruncDiv(y + cy, CELL_SIZE))

\* mutant: Delete leaves the cells
ClearCells_Noop(cells_) == cells_

\* cells.clear()
ClearCells(cells_) == {}

\* the match arms of the event loop of run(); quit stands for break 'running,
\* cleared records that cells.clear() ran in this frame
HandleEvent(st, event) ==
  CASE event \in {"Quit", "KeyDownEscape"} -> [st EXCEPT !.quit = TRUE]
    [] event = "KeyDownW" -> [st EXCEPT !.w_down = TRUE]
    [] event = "KeyDownA" -> [st EXCEPT !.a_down = TRUE]
    [] event = "KeyDownS" -> [st EXCEPT !.s_down = TRUE]
    [] event = "KeyDownD" -> [st EXCEPT !.d_down = TRUE]
    [] event = "KeyUpW" -> [st EXCEPT !.w_down = FALSE]
    [] event = "KeyUpA" -> [st EXCEPT !.a_down = FALSE]
    [] event = "KeyUpS" -> [st EXCEPT !.s_down = FALSE]
    [] event = "KeyUpD" -> [st EXCEPT !.d_down = FALSE]
    [] event = "KeyDownSpace" -> [st EXCEPT !.stepping = ~@]
    [] event = "KeyDownDelete" -> [st EXCEPT !.cells = ClearCells(@), !.cleared = TRUE]
    [] OTHER -> st

\* mutant: Quit and Escape set a flag that is read after the queue is drained
RECURSIVE PollEvents_DrainsAll(_, _, _)
PollEvents_DrainsAll(st, queue, i) ==
  IF i > Len(queue)
    THEN st
    ELSE PollEvents_DrainsAll(HandleEvent(st, queue[i]), queue, i + 1)

\* for event in event_pump.poll_iter() { ... }: the events i.. of the queue,
\* in order, up to the first one that leaves the loop
RECURSIVE PollEvents(_, _, _)
PollEvents(st, queue, i) ==
  IF i > Len(queue) \/ st.quit
    THEN st
    ELSE PollEvents(HandleEvent(st, queue[i]), queue, i + 1)

\* mutant: else if: opposite directions do not cancel
Pan_ElseIf(cam, minus_down, plus_down) ==
  IF minus_down THEN cam - PAN_SPEED
  ELSE IF plus_down THEN cam + PAN_SPEED ELSE cam

\* if w_down { cam_y -= 15; } ... if s_down { cam_y += 15; }  (and a, d on x)
Pan(cam, minus_down, plus_down) ==
  LET c1 == IF minus_down THEN cam - PAN_SPEED ELSE cam
  IN  IF plus_down THEN c1 + PAN_SPEED ELSE c1

\* if lmb_pressed { cells.insert(grid_pos); }
Paint(cells_, pressed, grid_pos) ==
  IF pressed THEN cells_ \cup {grid_pos} ELSE cells_

\* mutant: the erase block inserts, as the paint block it was copied from
Erase_Inserts(cells_, pressed, grid_pos) ==
  IF pressed THEN cells_ \cup {grid_pos} ELSE cells_

\* if rmb_pressed { cells.remove(&grid_pos); }
Erase(cells_, pressed, grid_pos) ==
  IF pressed THEN cells_ \ {grid_pos} ELSE cells_

\* mutant: remove, then insert
Edit_EraseFirst(cells_, left, right, grid_pos) ==
  Paint(Erase(cells_, right, grid_pos), left, grid_pos)

\* the edits of one frame, in the order of the source: insert, then remove
Edit(cells_, left, right, grid_pos) ==
  Erase(Paint(cells_, left, grid_pos), right, grid_pos)

\* mutant: frame_i is incremented only in the frames without a step
Advance_ElseIncrement(cells_, fi, stepping_) ==
  IF stepping_
    THEN IF fi >= STEP_FRAME
      THEN [cells |-> step(cells_), frame_i |-> 0, stepped |-> TRUE]
      ELSE [cells |-> cells_, frame_i |-> fi + 1, stepped |-> FALSE]
    ELSE [cells |-> cells_, frame_i |-> fi, stepped |-> FALSE]

\* mutant: the counter is compared with >
Advance_StrictlyGreater(cells_, fi, stepping_) ==
  IF stepping_
    THEN IF fi > STEP_FRAME
      THEN [cells |-> step(cells_), frame_i |-> 0 + 1, stepped |-> TRUE]
      ELSE [cells |-> cells_, frame_i |-> fi + 1, stepped |-> FALSE]
    ELSE [cells |-> cells_, frame_i |-> fi, stepped |-> FALSE]

\* mutant: the run/pause flag is not consulted
Advance_IgnoresPause(cells_, fi, stepping_) ==
  IF fi >= STEP_FRAME
    THEN [cells |-> step(cells_), frame_i |-> 0 + 1, stepped |-> TRUE]
    ELSE [cells |-> cells_, frame_i |-> fi + 1, stepped |-> FALSE]

\* if stepping { if frame_i >= STEP_FRAME { frame_i = 0; cells = step(&cells); }
\*               frame_i += 1; }
Advance(cells_, fi, stepping_) ==
  IF stepping_
    THEN IF fi >= STEP_FRAME
      THEN [cells |-> step(cells_), frame_i |-> 0 + 1, stepped |-> TRUE]
      ELSE [cells |-> cells_, frame_i |-> fi + 1, stepped |-> FALSE]
    ELSE [cells |-> cells_, frame_i |-> fi, stepped |-> FALSE]

\* Rect::new(x, y, width, height)
Rect(x, y, w, h) == [x |-> x, y |-> y, w |-> w, h |-> h]

\* mutant: the cell is not scaled to pixels
CellRect_Unscaled(c, x, y) ==
  Rect(x + c.x, y + c.y, CELL_SIZE, CELL_SIZE)

\* the rectangle Draw::draw fills for the cell c, (x, y) the translation
CellRect(c, x, y) ==
  Rect(x + c.x * CELL_SIZE, y + c.y * CELL_SIZE, CELL_SIZE, CELL_SIZE)

\* Draw::draw for HashSet<Coord>: the outcomes of for c in self.iter() {
\* fill_rect(..) or bail }, refused the cells whose rectangle fill_rect refuses.
\* The set is iterated in an unspecified order, so the cells filled before the
\* first refusal are any of the cells that are not refused.
draw(cells_, x, y, refused) ==
  IF cells_ \cap refused = {}
    THEN {[result |-> "Ok", filled |-> {CellRect(c, x, y) : c \in cells_}]}
    ELSE {[result |-> "Err", filled |-> {CellRect(c, x, y) : c \in done}] :
            done \in SUBSET (cells_ \ refused)}

\* mutant: a frame whose draw failed is abandoned (continue 'running)
AfterDraw_SkipOnError(result, cells_, fi, stepping_) ==
  IF result = "Err"
    THEN [cells |-> cells_, frame_i |-> fi, stepped |-> FALSE]
    ELSE Advance(cells_, fi, stepping_)

\* let _ = cells.draw(..); if stepping { .. }: what draw returned is dropped
\* and the frame goes on
AfterDraw(result, cells_, fi, stepping_) ==
  Advance(cells_, fi, stepping_)

\* let mut nei = [Coord { x: 0, y: 0 }; 8]
EmptyBuffer == [i \in 1..Len(DIFFS) |-> Coord(0, 0)]

\* ---------------------------------------------------------------- state

VARIABLES
  \* the generation engine applied on its own
  start,        \* the set the generations are computed from
  live,         \* the set handed to step at its last application
  counts_,      \* neighbour_counts of that set
  next_gen,     \* the set step returned
  gen,          \* the number of generations computed so far
  \* the locals of run()
  cells, frame_i, cam_x, cam_y,
  w_down, a_down, s_down, d_down,
  stepping,
  mouse_x, mouse_y, lmb_pressed, rmb_pressed,
  running,      \* FALSE once break 'running was taken
  \* what the last frame did
  cleared,      \* it handled a Delete key-down
  rendered,     \* the set it handed to draw
  stepped,      \* it called step
  after_paint,  \* the frame before it held paint on the same pixel, under
                \* the same camera offset
  \* the history of the cadence
  steps,        \* the calls of step so far
  since,        \* the running frames completed after the last call of step
                \* (after the start of the loop, when there was none)
  last_gap,     \* the running frames from the call of step before the last
                \* one (from the start of the loop, when there was none) up to
                \* and including the frame of the last one
  events,       \* the queue event_pump.poll_iter() held in the last frame
  draw_result,  \* what draw returned in the last frame, "None": not called
  filled,       \* the rectangles filled on the canvas since canvas.clear()
  \* the coordinate functions applied on their own
  pc,           \* what was applied last
  grid_cell,    \* the Coord mouse_to_grid returned
  nei           \* the buffer neighbours filled

engine_vars == <<start, live, counts_, next_gen, gen>>

loop_vars ==
  <<cells, frame_i, cam_x, cam_y, w_down, a_down, s_down, d_down, stepping,
    mouse_x, mouse_y, lmb_pressed, rmb_pressed, running,
    cleared, rendered, stepped, after_paint, steps, since, last_gap,
    events, draw_result, filled>>

coord_vars == <<pc, grid_cell, nei>>

vars == <<engine_vars, loop_vars, coord_vars>>

\* the state of run() when it enters 'running
InitLocals ==
  /\ cells = {}
  /\ frame_i = 0
  /\ w_down = FALSE
  /\ a_down = FALSE
  /\ s_down = FALSE
  /\ d_down = FALSE
  /\ stepping = TRUE
  /\ lmb_pressed = FALSE
  /\ rmb_pressed = FALSE
  /\ running = TRUE
  /\ cleared = FALSE
  /\ rendered = {}
  /\ stepped = FALSE
  /\ after_paint = FALSE
  /\ steps = 0
  /\ since = 0
  /\ last_gap = 0
  /\ events = <<>>
  /\ draw_result = "None"
  /\ filled = {}

InitLoop ==
  /\ InitLocals
  /\ cam_x = 0
  /\ cam_y = 0
  /\ mouse_x = 0
  /\ mouse_y = 0

InitCoord ==
  /\ pc = "idle"
  /\ grid_cell = Coord(0, 0)
  /\ nei = EmptyBuffer

InitEngine ==
  /\ start = {}
  /\ live = {}
  /\ counts_ = EmptyMap
  /\ next_gen = {}
  /\ gen = 0

\* ------------------------------------------- the generation engine alone

InitStep ==
  /\ start \in SUBSET Grid
  /\ live = start
  /\ counts_ = EmptyMap
  /\ next_gen = start
  /\ gen = 0
  /\ InitLoop
  /\ InitCoord

\* one application of step to the current generation
ApplyStep ==
  /\ gen < MaxGen
  /\ live' = next_gen
  /\ counts_' = neighbour_counts(next_gen)
  /\ next_gen' = step(next_gen)
  /\ gen' = gen + 1
  /\ UNCHANGED <<start, loop_vars, coord_vars>>

NextStep == ApplyStep

SpecStep == InitStep /\ [][NextStep]_vars

\* ------------------------------------------------------ the loop of run()

\* the flags, the run/pause state and the cells after the events of the frame
AfterEvents(queue) ==
  PollEvents([w_down |-> w_down, a_down |-> a_down, s_down |-> s_down,
              d_down |-> d_down, stepping |-> stepping, cells |-> cells,
              cleared |-> FALSE, quit |-> FALSE], queue, 1)

InBounds(cx, cy, cs, n) ==
  /\ cx \in -(MaxPan * PAN_SPEED)..(MaxPan * PAN_SPEED)
  /\ cy \in -(MaxPan * PAN_SPEED)..(MaxPan * PAN_SPEED)
  /\ Cardinality(cs) <= MaxLive
  /\ n <= MaxSteps

\* mutant: the grid cell of the edits is computed before the pan
LoopBody_EditBeforePan(ptr, queue, refused) ==
  \E ev \in {AfterEvents(queue)} :
  \E cx \in {Pan(cam_x, ev.a_down, ev.d_down)} :
  \E cy \in {Pan(cam_y, ev.w_down, ev.s_down)} :
  \E grid_pos \in {mouse_to_grid(ptr.x, ptr.y, cam_x, cam_y)} :
  \E edited \in {Edit(ev.cells, ptr.left, ptr.right, grid_pos)} :
  \E drawn \in draw(edited, -cx, -cy, refused) :
  \E adv \in {AfterDraw(drawn.result, edited, frame_i, ev.stepping)} :
  \E n \in {IF adv.stepped THEN steps + 1 ELSE steps} :
      /\ ~ev.quit
      /\ InBounds(cx, cy, edited, n)
      /\ InBounds(cx, cy, adv.cells, n)
      /\ mouse_x' = ptr.x
      /\ mouse_y' = ptr.y
      /\ lmb_pressed' = ptr.left
      /\ rmb_pressed' = ptr.right
      /\ w_down' = ev.w_down
      /\ a_down' = ev.a_down
      /\ s_down' = ev.s_down
      /\ d_down' = ev.d_down
      /\ stepping' = ev.stepping
      /\ cleared' = ev.cleared
      /\ cam_x' = cx
      /\ cam_y' = cy
      /\ events' = queue
      /\ rendered' = edited
      /\ draw_result' = drawn.result
      /\ filled' = drawn.filled
      /\ cells' = adv.cells
      /\ frame_i' = adv.frame_i
      /\ stepped' = adv.stepped
      /\ after_paint' = (/\ lmb_pressed
                         /\ ptr.x = mouse_x /\ ptr.y = mouse_y
                         /\ cx = cam_x /\ cy = cam_y)
      /\ steps' = n
      /\ since' = IF adv.stepped THEN 0
                  ELSE IF ev.stepping THEN since + 1 ELSE since
      /\ last_gap' = IF adv.stepped THEN since + 1 ELSE last_gap
      /\ running' = TRUE

\* mutant: the generation step comes before the rendering
LoopBody_StepBeforeRender(ptr, queue, refused) ==
  \E ev \in {AfterEvents(queue)} :
  \E cx \in {Pan(cam_x, ev.a_down, ev.d_down)} :
  \E cy \in {Pan(cam_y, ev.w_down, ev.s_down)} :
  \E grid_pos \in {mouse_to_grid(ptr.x, ptr.y, cx, cy)} :
  \E edited \in {Edit(ev.cells, ptr.left, ptr.right, grid_pos)} :
  \E adv \in {Advance(edited, frame_i, ev.stepping)} :
  \E drawn \in draw(adv.cells, -cx, -cy, refused) :
  \E n \in {IF adv.stepped THEN steps + 1 ELSE steps} :
      /\ ~ev.quit
      /\ InBounds(cx, cy, edited, n)
      /\ InBounds(cx, cy, adv.cells, n)
      /\ mouse_x' = ptr.x
      /\ mouse_y' = ptr.y
      /\ lmb_pressed' = ptr.left
      /\ rmb_pressed' = ptr.right
      /\ w_down' = ev.w_down
      /\ a_down' = ev.a_down
      /\ s_down' = ev.s_down
      /\ d_down' = ev.d_down
      /\ stepping' = ev.stepping
      /\ cleared' = ev.cleared
      /\ cam_x' = cx
      /\ cam_y' = cy
      /\ events' = queue
      /\ rendered' = adv.cells
      /\ draw_result' = drawn.result
      /\ filled' = drawn.filled
      /\ cells' = adv.cells
      /\ frame_i' = adv.frame_i
      /\ stepped' = adv.stepped
      /\ after_paint' = (/\ lmb_pressed
                         /\ ptr.x = mouse_x /\ ptr.y = mouse_y
                         /\ cx = cam_x /\ cy = cam_y)
      /\ steps' = n
      /\ since' = IF adv.stepped THEN 0
                  ELSE IF ev.stepping THEN since + 1 ELSE since
      /\ last_gap' = IF adv.stepped THEN since + 1 ELSE last_gap
      /\ running' = TRUE

\* one iteration of 'running that reaches canvas.present(): ptr is the pointer
\* state sampled by event_pump.mouse_state(), queue the events that
\* event_pump.poll_iter() drains, refused the cells whose rectangle fill_rect
\* refuses in this frame
LoopBody(ptr, queue, refused) ==
  \E ev \in {AfterEvents(queue)} :
  \E cx \in {Pan(cam_x, ev.a_down, ev.d_down)} :
  \E cy \in {Pan(cam_y, ev.w_down, ev.s_down)} :
  \E grid_pos \in {mouse_to_grid(ptr.x, ptr.y, cx, cy)} :
  \E edited \in {Edit(ev.cells, ptr.left, ptr.right, grid_pos)} :
  \E drawn \in draw(edited, -cx, -cy, refused) :
  \E adv \in {AfterDraw(drawn.result, edited, frame_i, ev.stepping)} :
  \E n \in {IF adv.stepped THEN steps + 1 ELSE steps} :
      /\ ~ev.quit
      /\ InBounds(cx, cy, edited, n)
      /\ InBounds(cx, cy, adv.cells, n)
      /\ mouse_x' = ptr.x
      /\ mouse_y' = ptr.y
      /\ lmb_pressed' = ptr.left
      /\ rmb_pressed' = ptr.right
      /\ w_down' = ev.w_down
      /\ a_down' = ev.a_down
      /\ s_down' = ev.s_down
      /\ d_down' = ev.d_down
      /\ stepping' = ev.stepping
      /\ cleared' = ev.cleared
      /\ cam_x' = cx
      /\ cam_y' = cy
      /\ events' = queue
      /\ rendered' = edited
      /\ draw_result' = drawn.result
      /\ filled' = drawn.filled
      /\ cells' = adv.cells
      /\ frame_i' = adv.frame_i
      /\ stepped' = adv.stepped
      /\ after_paint' = (/\ lmb_pressed
                         /\ ptr.x = mouse_x /\ ptr.y = mouse_y
                         /\ cx = cam_x /\ cy = cam_y)
      /\ steps' = n
      /\ since' = IF adv.stepped THEN 0
                  ELSE IF ev.stepping THEN since + 1 ELSE since
      /\ last_gap' = IF adv.stepped THEN since + 1 ELSE last_gap
      /\ running' = TRUE

\* the iteration of 'running in which a Quit or an Escape key-down is drained:
\* break 'running leaves the loop from the event loop
LoopBreak(ptr, queue) ==
  \E ev \in {AfterEvents(queue)} :
      /\ ev.quit
      /\ mouse_x' = ptr.x
      /\ mouse_y' = ptr.y
      /\ lmb_pressed' = ptr.left
      /\ rmb_pressed' = ptr.right
      /\ w_down' = ev.w_down
      /\ a_down' = ev.a_down
      /\ s_down' = ev.s_down
      /\ d_down' = ev.d_down
      /\ stepping' = ev.stepping
      /\ cleared' = ev.cleared
      /\ cells' = ev.cells
      /\ events' = queue
      /\ draw_result' = "None"
      /\ filled' = {}
      /\ running' = FALSE
      /\ stepped' = FALSE
      /\ after_paint' = FALSE
      /\ UNCHANGED <<cam_x, cam_y, frame_i, rendered, steps, since, last_gap>>

\* ------------------------------------------- sessions of editing (Spec)

\* the pointer states sampled by event_pump.mouse_state(): a button held on a
\* pixel of the grid cell (0,0), (1,0) or (2,0), or the pointer at rest
Pointers ==
  {[x |-> x, y |-> 5, left |-> l, right |-> r] :
     x \in {5, 15, 25}, l \in BOOLEAN, r \in BOOLEAN} \
  {[x |-> x, y |-> 5, left |-> FALSE, right |-> FALSE] : x \in {15, 25}}

\* the pointer states of the frame that leaves the loop
QuitPointers ==
  {[x |-> 15, y |-> 5, left |-> TRUE, right |-> TRUE],
   [x |-> 25, y |-> 5, left |-> TRUE, right |-> FALSE],
   [x |-> 5, y |-> 5, left |-> FALSE, right |-> FALSE]}

\* the queues event_pump.poll_iter() drains in one frame of a session of
\* editing: the camera is never moved
EventQueues ==
  {<<>>, <<"KeyDownSpace">>, <<"KeyDownDelete">>, <<"MouseMotion">>,
   <<"KeyDownDelete", "KeyDownSpace">>, <<"KeyDownSpace", "KeyDownDelete">>}

\* the queues of the frame that leaves the loop
QuitQueues ==
  {<<"Quit">>, <<"KeyDownEscape">>, <<"KeyDownDelete", "Quit">>,
   <<"KeyDownEscape", "KeyDownDelete">>}

Init == InitLoop /\ InitEngine /\ InitCoord

Frame ==
  /\ running
  /\ \E ptr \in Pointers, queue \in EventQueues : LoopBody(ptr, queue, {})
  /\ UNCHANGED <<engine_vars, coord_vars>>

QuitFrame ==
  /\ running
  /\ \E ptr \in QuitPointers, queue \in QuitQueues : LoopBreak(ptr, queue)
  /\ UNCHANGED <<engine_vars, coord_vars>>

Next == Frame \/ QuitFrame

Spec == Init /\ [][Next]_vars

\* ------------------------------- sessions of panning and editing (SpecPan)

\* the camera of a session of panning stays at or right of the origin
PanRange == cam_x >= 0

\* the pointer on one pixel, at rest or with one button held
PanPointers ==
  {[x |-> 2, y |-> 5, left |-> FALSE, right |-> FALSE],
   [x |-> 2, y |-> 5, left |-> TRUE, right |-> FALSE],
   [x |-> 2, y |-> 5, left |-> FALSE, right |-> TRUE]}

\* the pointer state of the frame that leaves the loop
PanQuitPointers ==
  {[x |-> 2, y |-> 5, left |-> FALSE, right |-> FALSE]}

\* the events of a session of panning: the keys of the horizontal axis
PanEvents ==
  {"KeyDownA", "KeyUpA", "KeyDownD", "KeyUpD", "KeyDownSpace",
   "KeyDownDelete", "KeyDownEscape", "MouseMotion"}

PanQueues == {<<>>} \cup {<<e>> : e \in PanEvents}

PanFrame ==
  /\ running
  /\ \E ptr \in PanPointers, queue \in PanQueues : LoopBody(ptr, queue, {})
  /\ PanRange'
  /\ UNCHANGED <<engine_vars, coord_vars>>

PanQuitFrame ==
  /\ running
  /\ \E ptr \in PanQuitPointers, queue \in PanQueues : LoopBreak(ptr, queue)
  /\ UNCHANGED <<engine_vars, coord_vars>>

NextPan == PanFrame \/ PanQuitFrame

SpecPan == Init /\ [][NextPan]_vars

\* ------------------------------- sessions of the four pan keys (SpecCam)

\* the pointer at rest, or with both buttons held
CamPointers ==
  {[x |-> 2, y |-> 5, left |-> FALSE, right |-> FALSE],
   [x |-> 2, y |-> 5, left |-> TRUE, right |-> TRUE]}

CamEvents ==
  {"KeyDownW", "KeyUpW", "KeyDownA", "KeyUpA", "KeyDownS", "KeyUpS",
   "KeyDownD", "KeyUpD", "KeyDownSpace", "KeyDownDelete"}

\* no event, one event, or a key pressed and released within the frame
CamQueues ==
  {<<>>, <<"KeyDownW", "KeyUpW">>, <<"KeyUpD", "KeyDownD">>} \cup
  {<<e>> : e \in CamEvents}

\* the quadrant of camera offsets the sessions stay in
CamRange == cam_x >= 0 /\ cam_y <= 0

CamFrame ==
  /\ running
  /\ \E ptr \in CamPointers, queue \in CamQueues : LoopBody(ptr, queue, {})
  /\ CamRange'
  /\ UNCHANGED <<engine_vars, coord_vars>>

CamQuitFrame ==
  /\ running
  /\ \E ptr \in PanQuitPointers : LoopBreak(ptr, <<"KeyDownA", "KeyDownEscape">>)
  /\ UNCHANGED <<engine_vars, coord_vars>>

NextCam == CamFrame \/ CamQuitFrame

SpecCam == Init /\ [][NextCam]_vars

\* ------------------------ sessions with a failing renderer (SpecRender)

\* the pointer painting the cell (0,0), (1,0) or (2,0), or at rest
RenderPointers ==
  {[x |-> x, y |-> 5, left |-> TRUE, right |-> FALSE] : x \in {5, 15, 25}} \cup
  {[x |-> 5, y |-> 5, left |-> FALSE, right |-> FALSE]}

RenderQueues == {<<>>, <<"KeyDownSpace">>}

\* the cells a session of SpecRender can hold
RenderWindow == {Coord(x, y) : x \in -3..5, y \in -3..3}

\* the cells whose rectangle fill_rect refuses in a frame: none, the cell
\* (1,0), or every cell
Refusals == {{}, {Coord(1, 0)}, RenderWindow}

RenderFrame ==
  /\ running
  /\ \E ptr \in RenderPointers, queue \in RenderQueues, refused \in Refusals :
       LoopBody(ptr, queue, refused)
  /\ UNCHANGED <<engine_vars, coord_vars>>

RenderQuitFrame ==
  /\ running
  /\ \E ptr \in PanQuitPointers : LoopBreak(ptr, <<"Quit">>)
  /\ UNCHANGED <<engine_vars, coord_vars>>

NextRender == RenderFrame \/ RenderQuitFrame

SpecRender == Init /\ [][NextRender]_vars

\* -------------------------- the coordinate functions alone (SpecCoord)

\* a pointer and a camera offset, before anything is computed from them
InitLocate ==
  /\ mouse_x \in 0..MaxPixel
  /\ mouse_y \in 0..MaxPixel
  /\ cam_x \in -MaxCam..MaxCam
  /\ cam_y \in -MaxCam..MaxCam
  /\ InitLocals
  /\ InitCoord
  /\ InitEngine

\* let grid_pos = mouse_to_grid(mouse_x, mouse_y, cam_x, cam_y)
Locate ==
  /\ pc = "idle"
  /\ grid_cell' = mouse_to_grid(mouse_x, mouse_y, cam_x, cam_y)
  /\ pc' = "located"
  /\ UNCHANGED <<nei, engine_vars, loop_vars>>

\* the same, the pointer moved right by the width of a cell
Translate ==
  /\ pc = "located"
  /\ mouse_x' = mouse_x + CELL_SIZE
  /\ grid_cell' = mouse_to_grid(mouse_x + CELL_SIZE, mouse_y, cam_x, cam_y)
  /\ pc' = "translated"
  /\ UNCHANGED <<nei, engine_vars, cells, frame_i, cam_x, cam_y, w_down, a_down,
                 s_down, d_down, stepping, mouse_y, lmb_pressed, rmb_pressed,
                 running, cleared, rendered, stepped, after_paint, steps, since,
                 last_gap, events, draw_result, filled>>

\* neighbours(*c, &mut nei) for the cell under the pointer
FillBuffer ==
  /\ pc = "located"
  /\ nei' = neighbours(grid_cell)
  /\ pc' = "neighbours"
  /\ UNCHANGED <<grid_cell, engine_vars, loop_vars>>

\* if lmb_pressed { cells.insert(grid_pos); } and cells.draw(&mut canvas,
\* -cam_x, -cam_y), every rectangle accepted
PaintRender ==
  /\ pc = "located"
  /\ lmb_pressed' = TRUE
  /\ \E edited \in {Paint(cells, TRUE, grid_cell)} :
     \E drawn \in draw(edited, -cam_x, -cam_y, {}) :
       /\ cells' = edited
       /\ rendered' = edited
       /\ draw_result' = drawn.result
       /\ filled' = drawn.filled
  /\ pc' = "rendered"
  /\ UNCHANGED <<grid_cell, nei, engine_vars, frame_i, cam_x, cam_y, w_down,
                 a_down, s_down, d_down, stepping, mouse_x, mouse_y, rmb_pressed,
                 running, cleared, stepped, after_paint, steps, since, last_gap,
                 events>>

NextCoord == Locate \/ Translate \/ FillBuffer \/ PaintRender

SpecCoord == InitLocate /\ [][NextCoord]_vars

\* ======================================================== the claims

\* ---------------------------------------------- the generation engine

\* two distinct cells at Chebyshev distance 1
Adjacent(a, b) ==
  /\ a # b
  /\ a.x - b.x \in -1..1
  /\ a.y - b.y \in -1..1

\* n(c): the Moore neighbours of c that are in S
LiveNeighbours(c, S) == Cardinality({n \in S : Adjacent(c, n)})

\* the cells of S and their Moore neighbours: n(c) = 0 for every other cell
Near(S) ==
  {Coord(c.x + dx, c.y + dy) : c \in S, dx \in -1..1, dy \in -1..1}

\* C1: for every set S handed to step, step(S) is exactly the set of the cells
\* c with n(c) = 3, or n(c) = 2 and c in S (the rule of Life: birth at exactly
\* 3, survival at 2 or 3, death otherwise), and neighbour_counts(S) maps each
\* cell with n(c) >= 1 to n(c) and has no other key.
C1_StepIsLifeRule ==
  gen >= 1 =>
    /\ DOMAIN counts_ \subseteq Near(live)
    /\ next_gen \subseteq Near(live)
    /\ \A c \in Near(live) : \E n \in {LiveNeighbours(c, live)} :
         /\ (c \in DOMAIN counts_) <=> (n >= 1)
         /\ (c \in DOMAIN counts_) => (counts_[c] = n)
         /\ (c \in next_gen) <=> (n = 3 \/ (n = 2 /\ c \in live))
         /\ (c \in next_gen) <=> (IF c \in live THEN n \in {2, 3} ELSE n = 3)

\* a generation with a birth, a survival at 2, a survival at 3, a death with
\* fewer than 2 live neighbours and a death with more than 3
C1_Witness ==
  /\ gen = 1
  /\ \E c \in next_gen : c \notin live
  /\ \E c \in next_gen \cap live : counts_[c] = 2
  /\ \E c \in next_gen \cap live : counts_[c] = 3
  /\ \E c \in live \ next_gen : c \notin DOMAIN counts_ \/ counts_[c] < 2
  /\ \E c \in live \ next_gen : c \in DOMAIN counts_ /\ counts_[c] >= 4

HBlinker(c) == {Coord(c.x - 1, c.y), c, Coord(c.x + 1, c.y)}

VBlinker(c) == {Coord(c.x, c.y - 1), c, Coord(c.x, c.y + 1)}

\* C8: for every blinker S (three collinear adjacent cells, horizontal or
\* vertical) of the grid, step(S) is the perpendicular blinker through the same
\* centre, step(S) # S, and step(step(S)) = S: the odd generations are the
\* perpendicular blinker, the even ones are S.
C8_BlinkerPeriodTwo ==
  \A c \in Grid :
    /\ (start = HBlinker(c) /\ gen % 2 = 1) =>
         (next_gen = VBlinker(c) /\ next_gen # start)
    /\ (start = VBlinker(c) /\ gen % 2 = 1) =>
         (next_gen = HBlinker(c) /\ next_gen # start)
    /\ (start \in {HBlinker(c), VBlinker(c)} /\ gen % 2 = 0) =>
         next_gen = start

\* two generations computed from a vertical blinker
C8_Witness ==
  /\ gen = 2
  /\ \E c \in Grid : start = VBlinker(c) /\ live = HBlinker(c)

Block(c) ==
  {c, Coord(c.x + 1, c.y), Coord(c.x, c.y + 1), Coord(c.x + 1, c.y + 1)}

\* C9: for every 2x2 block S of the grid, step(S) = S, and so is every later
\* generation.
C9_BlockIsFixed ==
  \A c \in Grid : start = Block(c) => (next_gen = start /\ live = start)

\* two generations computed from a block
C9_Witness ==
  /\ gen = 2
  /\ \E c \in Grid : start = Block(c)

\* C10: for every set S of at most 2 cells (empty, one cell, a pair adjacent or
\* not), step(S) is empty, and every later generation is empty.
C10_FewCellsDie ==
  (Cardinality(start) <= 2 /\ gen >= 1) => next_gen = {}

\* one generation computed from two adjacent cells
C10_Witness ==
  /\ gen = 1
  /\ Cardinality(start) = 2
  /\ \E a \in start, b \in start : Adjacent(a, b)
  /\ counts_ # EmptyMap

\* ------------------------------------------------- the frames of the loop

\* the grid cell under the pointer in the last frame, as that frame computed it
GridPos == mouse_to_grid(mouse_x, mouse_y, cam_x, cam_y)

\* C2, as stated: every window of STEP_FRAME consecutive running frames, from
\* the first frame of the loop on, holds exactly one call of step, and
\* consecutive calls are STEP_FRAME running frames apart.
C2_Original ==
  /\ steps = 0 => since < STEP_FRAME
  /\ steps >= 1 => since < STEP_FRAME
  /\ steps = 1 => last_gap <= STEP_FRAME
  /\ steps >= 2 => last_gap = STEP_FRAME

\* C2, amended: step is called only in running frames; its first call is in
\* running frame STEP_FRAME + 1 of the loop, and each later call is exactly
\* STEP_FRAME running frames after the one before it.
C2_Cadence ==
  /\ STEP_FRAME = 12
  /\ stepped => stepping
  /\ steps = 0 => since <= STEP_FRAME
  /\ steps >= 1 => since < STEP_FRAME
  /\ steps = 1 => last_gap = STEP_FRAME + 1
  /\ steps >= 2 => last_gap = STEP_FRAME

\* the frame of the second call of step
C2_Witness ==
  /\ stepped
  /\ steps = 2
  /\ last_gap = STEP_FRAME

Bit(b) == IF b THEN 1 ELSE 0

\* C3: a frame executed while paused never calls step: the cells at its end are
\* those at its start after its clear, its paint insertion and its erase
\* removal; the camera pan by the held direction flags and the edits are those
\* of a running frame.
C3_PausedFrame ==
  [][ running' =>
        /\ cam_x' = cam_x + PAN_SPEED * (Bit(d_down') - Bit(a_down'))
        /\ cam_y' = cam_y + PAN_SPEED * (Bit(s_down') - Bit(w_down'))
        /\ \E base \in {IF cleared' THEN {} ELSE cells} :
             rendered' = (IF lmb_pressed' THEN base \cup {GridPos'} ELSE base)
                           \ (IF rmb_pressed' THEN {GridPos'} ELSE {})
        /\ ~stepping' =>
             /\ ~stepped'
             /\ cells' = rendered'
             /\ frame_i' = frame_i
             /\ steps' = steps
    ]_loop_vars

\* a paused frame that panned and painted, at a frame count at which a running
\* frame calls step
C3_Witness ==
  /\ running
  /\ ~stepping
  /\ frame_i = STEP_FRAME
  /\ d_down
  /\ cam_x = PAN_SPEED
  /\ lmb_pressed
  /\ Cardinality(cells) >= 2

\* C4, as stated: the cells are empty when the frame that handled the Delete
\* key-down is rendered and when it ends.
C4_Original ==
  (cleared /\ running) => (rendered = {} /\ cells = {})

\* C4, amended: Delete empties the cells when it is handled, whatever they
\* were, in a running and in a paused frame; the edits of the same frame follow
\* it, so the set rendered in that frame is the pointer's grid cell when paint
\* is held without erase and is empty otherwise, and the set at the end of the
\* frame is the rendered one, or empty when the frame called step.
C4_ClearThenEdit ==
  /\ (cleared /\ running) =>
       /\ rendered = IF lmb_pressed /\ ~rmb_pressed THEN {GridPos} ELSE {}
       /\ cells = IF stepped THEN {} ELSE rendered
  /\ (cleared /\ ~running) => cells = {}

\* a paused frame that handled Delete with paint held
C4_Witness ==
  /\ cleared
  /\ running
  /\ ~stepping
  /\ lmb_pressed
  /\ ~rmb_pressed
  /\ cells = {GridPos}

\* in the last frame erase was held without paint, on the pixel and under the
\* camera offset of the paint of the frame before it
PaintThenErase ==
  /\ running
  /\ after_paint
  /\ rmb_pressed
  /\ ~lmb_pressed

\* C5, as stated: after paint in one frame and erase on the same pixel in the
\* next, the camera unchanged, the pointer's grid cell is not alive at the end
\* of the second frame; erasing a cell that is not alive changes nothing.
C5_Original ==
  [][ /\ PaintThenErase' => GridPos' \notin cells'
      /\ (running' /\ rmb_pressed' /\ ~lmb_pressed' /\ ~cleared'
            /\ GridPos' \notin cells) => rendered' = cells
    ]_loop_vars

\* C5, amended: the pointer's grid cell is not in the set rendered in the second
\* frame, and not alive at its end unless that frame calls step, which gives
\* birth to it exactly when 3 of its neighbours are alive in the rendered set;
\* erasing a cell that is not alive changes nothing.
C5_PaintThenErase ==
  [][ /\ PaintThenErase' =>
           /\ GridPos' \notin rendered'
           /\ ~stepped' => GridPos' \notin cells'
           /\ stepped' =>
                (GridPos' \in cells' <=> LiveNeighbours(GridPos', rendered') = 3)
      /\ (running' /\ rmb_pressed' /\ ~lmb_pressed' /\ ~cleared'
            /\ GridPos' \notin cells) => rendered' = cells
    ]_loop_vars

\* the second frame, running, without a step, other cells alive
C5_Witness ==
  /\ PaintThenErase
  /\ stepping
  /\ ~stepped
  /\ cells # {}
  /\ GridPos \notin cells

\* C6: with paint and erase both held in a frame, the insertion comes first and
\* erase wins: the pointer's grid cell is not in the rendered set, alive before
\* the frame or not, and the two edits change no other cell.
C6_EraseWins ==
  [][ (running' /\ lmb_pressed' /\ rmb_pressed') =>
        /\ GridPos' \notin rendered'
        /\ rendered' = (IF cleared' THEN {} ELSE cells) \ {GridPos'}
    ]_loop_vars

\* both held on the pixel painted in the frame before, other cells alive
C6_Witness ==
  /\ running
  /\ lmb_pressed
  /\ rmb_pressed
  /\ after_paint
  /\ ~cleared
  /\ rendered # {}

Row == {Coord(0, 0), Coord(1, 0), Coord(2, 0)}

Column == {Coord(1, -1), Coord(1, 0), Coord(1, 1)}

\* C7: from the empty set and the camera at (0,0), a frame with paint held on a
\* pixel of the cell (0,0), (1,0) or (2,0) inserts that cell, and the
\* generation computed from exactly these three cells is {(1,-1), (1,0), (1,1)}.
C7_EndToEnd ==
  /\ (running /\ lmb_pressed /\ ~rmb_pressed /\ cam_x = 0 /\ cam_y = 0
        /\ mouse_x \in 0..(3 * CELL_SIZE - 1) /\ mouse_y \in 0..(CELL_SIZE - 1)) =>
       /\ Coord(mouse_x \div CELL_SIZE, 0) \in rendered
       /\ Coord(mouse_x \div CELL_SIZE, 0) \in Row
  /\ (stepped /\ rendered = Row) => cells = Column

\* the first generation of the loop, computed from the three painted cells
C7_Witness ==
  /\ stepped
  /\ steps = 1
  /\ cam_x = 0
  /\ cam_y = 0
  /\ rendered = Row
  /\ cells = Column

\* -------------------------------------------- the coordinate functions

Range(f) == {f[i] : i \in DOMAIN f}

\* the cells within 2 of c on each axis
Around(c) == {Coord(c.x + dx, c.y + dy) : dx \in -2..2, dy \in -2..2}

\* C11: neighbours(c) fills the buffer with exactly 8 pairwise distinct
\* coordinates, none of them c, all at Chebyshev distance 1 from c, and the
\* relation is symmetric: c is in neighbours(n) iff n is in neighbours(c).
C11_NeighboursShape ==
  pc = "neighbours" =>
    /\ Len(nei) = 8
    /\ \A i, j \in 1..Len(nei) : i # j => nei[i] # nei[j]
    /\ \A i \in 1..Len(nei) : nei[i] # grid_cell /\ Adjacent(nei[i], grid_cell)
    /\ \A n \in Around(grid_cell) :
         (grid_cell \in Range(neighbours(n))) <=> (n \in Range(nei))

\* the buffer filled for a cell with a negative and a positive coordinate
C11_Witness ==
  /\ pc = "neighbours"
  /\ grid_cell.x < 0
  /\ grid_cell.y > 0
  /\ nei # EmptyBuffer

\* C12: for x + cam_x >= 0 or x + cam_x <= -CELL_SIZE, mouse_to_grid(x +
\* CELL_SIZE, y, cam_x, cam_y) has the x of mouse_to_grid(x, y, cam_x, cam_y)
\* plus 1 and the same y.
C12_TranslationByOneCell ==
  [][ (pc' = "translated"
         /\ (mouse_x + cam_x >= 0 \/ mouse_x + cam_x <= -CELL_SIZE)) =>
        /\ grid_cell'.x = grid_cell.x + 1
        /\ grid_cell'.y = grid_cell.y
    ]_vars

\* a translation from the cell -2 to the cell -1
C12_Witness ==
  /\ pc = "translated"
  /\ mouse_x + cam_x <= -CELL_SIZE
  /\ grid_cell.x = -1

\* the sums s of pixel and camera offset that map to the grid index g under
\* truncation toward zero: 2 * CELL_SIZE - 1 of them for g = 0, CELL_SIZE for
\* every other g
Covers(g, s) ==
  IF g = 0 THEN -CELL_SIZE < s /\ s < CELL_SIZE
  ELSE IF g > 0 THEN g * CELL_SIZE <= s /\ s < (g + 1) * CELL_SIZE
  ELSE (g - 1) * CELL_SIZE < s /\ s <= g * CELL_SIZE

\* C13: mouse_to_grid truncates toward zero on each axis independently: every
\* sum s with -CELL_SIZE < s < CELL_SIZE maps to 0 (s = -1 gives 0), so the
\* index 0 covers 2 * CELL_SIZE - 1 sums and every other index CELL_SIZE.
C13_TruncationTowardZero ==
  pc = "located" =>
    /\ Covers(grid_cell.x, mouse_x + cam_x)
    /\ Covers(grid_cell.y, mouse_y + cam_y)
    /\ mouse_x + cam_x = -1 => grid_cell.x = 0
    /\ mouse_y + cam_y = -1 => grid_cell.y = 0

\* the sum -1 on one axis, the sum -CELL_SIZE on the other
C13_Witness ==
  /\ pc = "located"
  /\ mouse_x + cam_x = -1
  /\ grid_cell.x = 0
  /\ mouse_y + cam_y = -CELL_SIZE
  /\ grid_cell.y = -1

\* C20: for x + cam_x >= 0 and y + cam_y >= 0 the rectangle drawn in the same
\* frame for the painted cell c = mouse_to_grid(x, y, cam_x, cam_y) is
\* [c.x * CELL_SIZE - cam_x, .. + CELL_SIZE) x [c.y * CELL_SIZE - cam_y, .. +
\* CELL_SIZE) and contains the pointer pixel (x, y).
C20_PaintRenderRoundTrip ==
  (pc = "rendered" /\ mouse_x + cam_x >= 0 /\ mouse_y + cam_y >= 0) =>
    /\ filled = {Rect(grid_cell.x * CELL_SIZE - cam_x,
                      grid_cell.y * CELL_SIZE - cam_y, CELL_SIZE, CELL_SIZE)}
    /\ \A r \in filled :
         /\ r.x <= mouse_x /\ mouse_x < r.x + r.w
         /\ r.y <= mouse_y /\ mouse_y < r.y + r.h

\* a cell away from the origin painted and drawn under a camera offset with a
\* negative and a positive coordinate
C20_Witness ==
  /\ pc = "rendered"
  /\ draw_result = "Ok"
  /\ cam_x < 0
  /\ mouse_x + cam_x >= 0
  /\ cam_y > CELL_SIZE
  /\ grid_cell.y >= 1

\* ------------------------------------------------- the frames, continued

\* the rule of Life applied to S, from the count of the live Moore neighbours
LifeNext(S) ==
  {c \in Near(S) : \E n \in {LiveNeighbours(c, S)} : n = 3 \/ (n = 2 /\ c \in S)}

\* the number of the events e of the queue q
Count(q, e) == Cardinality({i \in 1..Len(q) : q[i] = e})

QuitEvents == {"Quit", "KeyDownEscape"}

\* C14: a render failure in a frame is ignored: the loop ends only on a quit
\* event; the cells, the camera offset, the run/pause flag and the frame counter
\* of a frame are what they are when rendering succeeds, a due generation step
\* included, whatever draw returned; draw is called in every frame that is
\* completed, the frames after a failure included.
C14_RenderFailureIgnored ==
  [][ /\ (running /\ ~running') => \E i \in 1..Len(events') : events'[i] \in QuitEvents
      /\ running' =>
           /\ draw_result' \in {"Ok", "Err"}
           /\ stepping' = (stepping <=> Count(events', "KeyDownSpace") % 2 = 0)
           /\ cam_x' = cam_x + PAN_SPEED * (Bit(d_down') - Bit(a_down'))
           /\ cam_y' = cam_y + PAN_SPEED * (Bit(s_down') - Bit(w_down'))
           /\ \E base \in {IF cleared' THEN {} ELSE cells} :
                rendered' = (IF lmb_pressed' THEN base \cup {GridPos'} ELSE base)
                              \ (IF rmb_pressed' THEN {GridPos'} ELSE {})
           /\ stepped' = (stepping' /\ frame_i = STEP_FRAME)
           /\ cells' = IF stepped' THEN LifeNext(rendered') ELSE rendered'
           /\ frame_i' = IF stepped' THEN 1
                         ELSE IF stepping' THEN frame_i + 1 ELSE frame_i
    ]_vars

\* a frame whose draw failed after it filled a rectangle, and which computed
\* the generation that was due
C14_Witness ==
  /\ running
  /\ draw_result = "Err"
  /\ filled # {}
  /\ stepped
  /\ rendered = Row
  /\ cells = Column

\* the rectangles of the cells of S under the camera offset (cx, cy)
RectsOf(S, cx, cy) ==
  {Rect(c.x * CELL_SIZE - cx, c.y * CELL_SIZE - cy, CELL_SIZE, CELL_SIZE) : c \in S}

\* the set after the clear, the paint insertion and the erase removal of the
\* frame that ends in the primed state
EditedInFrame ==
  (IF lmb_pressed' THEN (IF cleared' THEN {} ELSE cells) \cup {GridPos'}
                   ELSE (IF cleared' THEN {} ELSE cells))
    \ (IF rmb_pressed' THEN {GridPos'} ELSE {})

\* C15: Quit and Escape end the loop at once: the events behind the first of
\* them in the queue are not applied, the frame does no pan, paint, erase,
\* render, generation step or counter increment, and nothing changes
\* afterwards; the loop ends for no other reason.
C15_QuitIsImmediate ==
  [][ /\ (running /\ ~running') =>
           \E i \in 1..Len(events') :
             /\ events'[i] \in QuitEvents
             /\ \A j \in 1..(i - 1) : events'[j] \notin QuitEvents
             /\ \E before \in {SubSeq(events', 1, i - 1)} :
                  /\ cleared' = (Count(before, "KeyDownDelete") > 0)
                  /\ cells' = IF cleared' THEN {} ELSE cells
                  /\ stepping' = (stepping <=> Count(before, "KeyDownSpace") % 2 = 0)
             /\ UNCHANGED <<cam_x, cam_y, frame_i, steps, rendered,
                            w_down, a_down, s_down, d_down>>
             /\ ~stepped'
             /\ draw_result' = "None"
             /\ filled' = {}
      /\ running' => \A i \in 1..Len(events') : events'[i] \notin QuitEvents
      /\ ~running => UNCHANGED loop_vars
    ]_vars

\* the loop left on Escape with the paint button held and a Delete behind the
\* Escape in the queue
C15_Witness ==
  /\ ~running
  /\ events = <<"KeyDownEscape", "KeyDownDelete">>
  /\ lmb_pressed
  /\ ~rmb_pressed
  /\ GridPos \notin cells
  /\ cells # {}
  /\ frame_i > 0

\* C17, as stated: in a frame where a generation step is due the set handed to
\* draw is the output of step applied to the set after the edits.
C17_Original ==
  (running /\ stepped) =>
    /\ rendered = cells
    /\ filled = RectsOf(cells, cam_x, cam_y)

\* C17, amended: in a frame where a generation step is due the set handed to
\* draw is the set after the edits, and the cells are replaced by the output of
\* step applied to it after the rendering; the output is handed to draw in the
\* next frame, after the clear and the edits of that frame.
C17_RenderBeforeStep ==
  [][ running' =>
        /\ rendered' = EditedInFrame
        /\ filled' = RectsOf(rendered', cam_x', cam_y')
        /\ stepped' => cells' = LifeNext(rendered')
    ]_vars

\* the second generation step of a session: the column is drawn, the row is
\* left in the cells
C17_Witness ==
  /\ running
  /\ stepped
  /\ steps = 2
  /\ rendered = Column
  /\ filled = RectsOf(Column, 0, 0)
  /\ cells = Row

\* C19: at every frame boundary 0 <= frame_i <= STEP_FRAME; a frame calls step
\* iff it is running and frame_i = STEP_FRAME, and then ends with frame_i = 1;
\* the other running frames add 1 to frame_i; paused frames, with or without a
\* clear or an edit, leave it unchanged, so consecutive calls of step are
\* STEP_FRAME running frames apart whatever the pauses between them, and a
\* resume at frame_i = STEP_FRAME calls step in the frame of the resume.
C19_FrameCounter ==
  [][ running' =>
        /\ frame_i \in 0..STEP_FRAME
        /\ frame_i' \in 0..STEP_FRAME
        /\ stepped' = (stepping' /\ frame_i = STEP_FRAME)
        /\ stepped' => frame_i' = 1
        /\ (stepping' /\ ~stepped') => frame_i' = frame_i + 1
        /\ ~stepping' => frame_i' = frame_i
        /\ (stepped' /\ steps' >= 2) => last_gap' = STEP_FRAME
    ]_vars

\* the second call of step, in the frame of a resume
C19_Witness ==
  /\ running
  /\ stepped
  /\ events = <<"KeyDownSpace">>
  /\ steps = 2
  /\ frame_i = 1
  /\ last_gap = STEP_FRAME

\* the direction flag after the events of the queue q: set by the key-down
\* event down, reset by the key-up event up, the last of them in q decides
Latched(flag, q, down, up) ==
  \E at \in {{i \in 1..Len(q) : q[i] \in {down, up}}} :
    IF at = {} THEN flag
    ELSE \E last \in at : (\A i \in at : i <= last) /\ q[last] = down

\* the four direction flags after the frame that ends in the primed state
FlagsLatched ==
  /\ w_down' = Latched(w_down, events', "KeyDownW", "KeyUpW")
  /\ a_down' = Latched(a_down, events', "KeyDownA", "KeyUpA")
  /\ s_down' = Latched(s_down, events', "KeyDownS", "KeyUpS")
  /\ d_down' = Latched(d_down, events', "KeyDownD", "KeyUpD")

\* C16: the order of a frame is: events (direction flags, toggle, clear), pan,
\* paint insertion, erase removal, render, generation step. The pan uses the
\* flags after the events of the frame, the grid cell of the edits is computed
\* from the camera offset after the pan, the rendered set holds the edits of
\* the frame and is the set before the step, and the step is computed from the
\* set after the edits.
C16_FrameOrder ==
  [][ running' =>
        /\ FlagsLatched
        /\ stepping' = (stepping <=> Count(events', "KeyDownSpace") % 2 = 0)
        /\ cleared' = (Count(events', "KeyDownDelete") > 0)
        /\ cam_x' = cam_x + PAN_SPEED * (Bit(d_down') - Bit(a_down'))
        /\ cam_y' = cam_y + PAN_SPEED * (Bit(s_down') - Bit(w_down'))
        /\ \E g \in {Coord(TruncDiv(mouse_x' + cam_x', CELL_SIZE),
                           TruncDiv(mouse_y' + cam_y', CELL_SIZE))} :
           \E base \in {IF cleared' THEN {} ELSE cells} :
             rendered' = (IF lmb_pressed' THEN base \cup {g} ELSE base)
                           \ (IF rmb_pressed' THEN {g} ELSE {})
        /\ filled' = RectsOf(rendered', cam_x', cam_y')
        /\ cells' = IF stepped' THEN LifeNext(rendered') ELSE rendered'
    ]_vars

\* the frame of a key-down of D with paint held, in which a step was due: the
\* cell painted is the one under the pointer after the pan
C16_Witness ==
  /\ running
  /\ events = <<"KeyDownD">>
  /\ cam_x = PAN_SPEED
  /\ lmb_pressed
  /\ stepped
  /\ rendered = {Coord(1, 0)}
  /\ cells = {}

\* C18: in every frame that does not quit the camera offset changes by exactly
\* (PAN_SPEED * (right - left), PAN_SPEED * (down - up)), the four direction
\* flags as latched after the events of the frame (set from key-down to key-up,
\* across frames, running or paused; opposite directions cancel); nothing else
\* changes it: clear, toggle, paint, erase, step and quit leave it unchanged.
C18_CameraPan ==
  [][ /\ running' =>
           /\ FlagsLatched
           /\ cam_x' = cam_x + PAN_SPEED * (Bit(d_down') - Bit(a_down'))
           /\ cam_y' = cam_y + PAN_SPEED * (Bit(s_down') - Bit(w_down'))
      /\ ~running' => UNCHANGED <<cam_x, cam_y>>
    ]_vars

\* a paused frame, the one of the key-down of W: left and right, held since
\* earlier frames, cancel, up moves the camera by one pan
C18_Witness ==
  /\ running
  /\ ~stepping
  /\ events = <<"KeyDownW">>
  /\ a_down /\ d_down /\ w_down /\ ~s_down
  /\ cam_x = PAN_SPEED
  /\ cam_y = -PAN_SPEED

====
